---- MODULE Spec2Model ----
(***************************************************************************)
(* Model of azul's binding layer:                                          *)
(*   - UiState (azul/src/ui_state.rs): the tag registry built by           *)
(*     from_app_state and extended by create_tags_for_hover_nodes;         *)
(*   - UiDescription / StyledNode / CssConstraintList                      *)
(*     (src/ui_description.rs): the styled-node map built by from_dom.     *)
(* Dom::into_ui_state, dom::new_tag_id and css::match_dom_css_selectors    *)
(* are called by these files but defined elsewhere; they are modelled from *)
(* the written specification (sections 3, 4.1, 4.2 and 5).                 *)
(***************************************************************************)
EXTENDS Integers, Sequences, FiniteSets, TLC

(***************************************************************************)
(* Bounds of the model.                                                    *)
(***************************************************************************)
\* largest number of nodes in a DOM returned by layout()
MaxNodes == 2
\* number of from_app_state calls (frames) one builder makes
MaxFrames == 2
\* number of create_tags_for_hover_nodes calls on one registry
MaxHoverCalls == 2
\* cap on the process-wide tag counter
MaxTag == 9

Builders == {1, 2}
\* window ids a caller may pass; app_state.windows holds only some of them
WindowIds == {1, 2, 3}
\* the mutex guarding app_state.data is free, or held by a builder, or held by
\* another owner of the shared application data (a task thread)
Free == <<>>
HeldBy(b) == <<"builder", b>>
Other == <<"other">>

HoverGroups == {"hover", "active"}

(***************************************************************************)
(* BTreeMap helpers: a map is a function with a finite domain.             *)
(***************************************************************************)
EmptyMap == <<>>

insert(m, k, v) == [x \in (DOMAIN m) \cup {k} |-> IF x = k THEN v ELSE m[x]]

contains_key(m, k) == k \in DOMAIN m

Values(m) == {m[k] : k \in DOMAIN m}

Min(S) == CHOOSE x \in S : \A y \in S : x <= y

(***************************************************************************)
(* NodeData: what a DOM node carries.  A callback registration is a pair   *)
(* <<class, filter>>; class is the event classification of section 3:      *)
(* "Regular", "Not", "Window" or "Desktop".  tab_index is an               *)
(* Option<TabIndex>: "None", "Auto" or "NoKeyboardFocus".                  *)
(***************************************************************************)
OfClass(regs, c) == {r \in regs : r[1] = c}

NodeData(cbs, dcbs, drag, tab) ==
    [callbacks |-> cbs, default_callback_ids |-> dcbs,
     is_draggable |-> drag, tab_index |-> tab]

\* Dom::new(NodeType::Div): a node with nothing attached
Div == NodeData({}, {}, FALSE, "None")

\* the regular, negated, window and desktop filter of a callback set
AllClasses == {<<"Regular", "MouseUp">>, <<"Not", "Hover">>,
               <<"Window", "Resized">>, <<"Desktop", "Any">>}

NodeKinds ==
    { \* only a negated-filter callback, inline
      NodeData({<<"Not", "Hover">>}, {}, FALSE, "None"),
      \* only a negated-filter callback, default
      NodeData({}, {<<"Not", "Focus">>}, FALSE, "None"),
      \* callbacks of every classification, draggable, focusable
      NodeData(AllClasses, AllClasses, TRUE, "Auto") }

\* the DOM of the cfg(test) build
TestDom == <<Div>>

\* the DOMs layout() returns: arenas with node ids 1..n, each node with its
\* NodeData; the test build's DOM is one of them
Doms == {TestDom} \cup UNION {[1..n -> NodeKinds] : n \in 1..MaxNodes}

\* a few DOMs for the specifications with several frames or builders
SmallDoms ==
    { TestDom,
      <<NodeData(AllClasses, AllClasses, TRUE, "Auto"),
        NodeData({<<"Not", "Hover">>}, {}, FALSE, "None")>>,
      <<Div, NodeData({}, {<<"Not", "Focus">>}, FALSE, "None")>> }

\* the hover maps layout can compute for a DOM
HoverMaps(dom) == UNION {[S -> HoverGroups] : S \in SUBSET (DOMAIN dom)}

(***************************************************************************)
(* UiState: the tag registry.                                              *)
(***************************************************************************)
UiState(d) ==
    [dom |-> d,
     tag_ids_to_callbacks |-> EmptyMap,
     tag_ids_to_default_callbacks |-> EmptyMap,
     tab_index_tags |-> EmptyMap,
     draggable_tags |-> EmptyMap,
     tag_ids_to_node_ids |-> EmptyMap,
     node_ids_to_tag_ids |-> EmptyMap,
     dynamic_css_overrides |-> EmptyMap,
     tag_ids_to_hover_active_states |-> EmptyMap,
     not_callbacks |-> EmptyMap,
     not_default_callbacks |-> EmptyMap,
     window_callbacks |-> EmptyMap,
     window_default_callbacks |-> EmptyMap,
     desktop_callbacks |-> EmptyMap,
     desktop_default_callbacks |-> EmptyMap]

\* what a builder holds before from_app_state has produced anything
NoUiState == UiState(<<>>)

\* pre[b] outside a hover call
NoCall == [ui |-> NoUiState, allocs |-> 0]

VARIABLES
    data_lock,      \* app_state.data: [holder, poisoned]
    TAG_ID,         \* the process-wide tag counter
    allocated,      \* history: every tag new_tag_id has returned, in order
    pc,             \* pc[b]: where builder b is
    window_id,      \* window_id[b]: the argument of the running from_app_state
    ui,             \* ui[b]: the registry builder b is building or owns
    result,         \* result[b]: outcome of the last from_app_state call
    cursor,         \* cursor[b]: next node of the into_ui_state traversal
    hover_nodes,    \* hover_nodes[b]: argument of the last hover call
    todo,           \* todo[b]: keys of hover_nodes[b] not yet iterated
    pre,            \* pre[b]: [ui, allocs] when the last hover call began
    frames,         \* frames[b]: from_app_state calls made so far
    hover_calls,    \* hover_calls[b]: hover calls made on ui[b]
    locks_taken,    \* locks_taken[b]: lock acquisitions in the current call
    allocs,         \* allocs[b]: tags allocated by b for ui[b]
    arena,          \* from_dom's dom: parent of every node (0 for the root)
    style,          \* from_dom's style: the rules in stylesheet order
    styled_nodes,   \* UiDescription.styled_nodes
    work,           \* nodes waiting to be visited, with their z-level
    current,        \* the node being cascaded, <<>> if none
    phase           \* where from_dom is

tagvars == <<data_lock, TAG_ID, allocated, pc, window_id, ui, result, cursor,
             hover_nodes, todo, pre, frames, hover_calls, locks_taken, allocs>>

cssvars == <<arena, style, styled_nodes, work, current, phase>>

vars == <<tagvars, cssvars>>

\* keys of app_state.windows
Windows == {1, 2}

(***************************************************************************)
(* dom::new_tag_id: one atomic fetch-and-increment of the counter.        *)
(***************************************************************************)
new_tag_id(counter) == [tag |-> counter, counter |-> counter + 1]

(***************************************************************************)
(* Dom::into_ui_state, one node of the traversal (section 4.1, steps 2-3). *)
(***************************************************************************)
\* a builder that gives a tag to every node with any callback at all
needs_tag_any_callback(data) ==
    \/ data.callbacks # {}
    \/ data.default_callback_ids # {}
    \/ data.is_draggable
    \/ data.tab_index # "None"

\* step 2: the node has an item that requires hit-testing
needs_tag(data) ==
    \/ OfClass(data.callbacks, "Regular") # {}
    \/ OfClass(data.default_callback_ids, "Regular") # {}
    \/ data.is_draggable
    \/ data.tab_index # "None"

InsertIf(cond, m, k, v) == IF cond THEN insert(m, k, v) ELSE m

\* step 3: route every callback / marker of node n into its target map;
\* t is the node's tag identity (used only if needs_tag)
route_node(reg, n, t) ==
    LET data == reg.dom[n]
        cb(c) == OfClass(data.callbacks, c)
        dcb(c) == OfClass(data.default_callback_ids, c)
    IN [reg EXCEPT
          !.tag_ids_to_callbacks = InsertIf(cb("Regular") # {}, @, t, cb("Regular")),
          !.tag_ids_to_default_callbacks = InsertIf(dcb("Regular") # {}, @, t, dcb("Regular")),
          !.tab_index_tags = InsertIf(data.tab_index # "None", @, t, <<n, data.tab_index>>),
          !.draggable_tags = InsertIf(data.is_draggable, @, t, n),
          !.tag_ids_to_node_ids = InsertIf(needs_tag(data), @, t, n),
          !.node_ids_to_tag_ids = InsertIf(needs_tag(data), @, n, t),
          !.not_callbacks = InsertIf(cb("Not") # {}, @, n, cb("Not")),
          !.not_default_callbacks = InsertIf(dcb("Not") # {}, @, n, dcb("Not")),
          !.window_callbacks = InsertIf(cb("Window") # {}, @, n, cb("Window")),
          !.window_default_callbacks = InsertIf(dcb("Window") # {}, @, n, dcb("Window")),
          !.desktop_callbacks = InsertIf(cb("Desktop") # {}, @, n, cb("Desktop")),
          !.desktop_default_callbacks = InsertIf(dcb("Desktop") # {}, @, n, dcb("Desktop"))]

(***************************************************************************)
(* UiState::from_app_state (ui_state.rs:85-111).                           *)
(***************************************************************************)
\* a lookup that never fails
windows_get_mut_always(ws, wid) == TRUE

\* app_state.windows.get_mut(window_id) is Some
windows_get_mut(ws, wid) == wid \in ws

\* the guard dropped at the end of the function instead of the end of the block
from_app_state_next_late_unlock(p) ==
    CASE p = "lookup" -> "lock"
      [] p = "lock" -> "layout"
      [] p = "layout" -> "into_ui_state"
      [] p = "into_ui_state" -> "unlock"
      [] p = "unlock" -> "return"
      [] OTHER -> "done"

\* the order of the steps of the function body
from_app_state_next(p) ==
    CASE p = "lookup" -> "lock"
      [] p = "lock" -> "layout"
      [] p = "layout" -> "unlock"
      [] p = "unlock" -> "into_ui_state"
      [] p = "into_ui_state" -> "return"
      [] OTHER -> "done"

\* the call begins: line 92, the window lookup and the `?`
FromAppState(b, wid) ==
    /\ pc[b] = "idle"
    /\ window_id' = [window_id EXCEPT ![b] = wid]
    /\ IF windows_get_mut(Windows, wid)
         THEN /\ pc' = [pc EXCEPT ![b] = from_app_state_next("lookup")]
              /\ result' = [result EXCEPT ![b] = "pending"]
         ELSE /\ pc' = [pc EXCEPT ![b] = "failed"]
              /\ result' = [result EXCEPT ![b] = "WindowIndexError"]
    /\ UNCHANGED <<data_lock, TAG_ID, allocated, ui, cursor, hover_nodes, todo,
                   pre, frames, hover_calls, locks_taken, allocs>>
    /\ UNCHANGED cssvars

\* line 100: app_state.data.lock().unwrap(); blocks while the mutex is held,
\* panics if the mutex is poisoned (the guard inside the PoisonError is
\* dropped by the unwinding, so the mutex is free again)
Lock(b) ==
    /\ pc[b] = "lock"
    /\ data_lock.holder = Free
    /\ IF data_lock.poisoned
         THEN /\ pc' = [pc EXCEPT ![b] = "panicked"]
              /\ result' = [result EXCEPT ![b] = "panic"]
              /\ UNCHANGED <<data_lock, locks_taken>>
         ELSE /\ pc' = [pc EXCEPT ![b] = from_app_state_next("lock")]
              /\ data_lock' = [data_lock EXCEPT !.holder = HeldBy(b)]
              /\ locks_taken' = [locks_taken EXCEPT ![b] = @ + 1]
              /\ UNCHANGED result
    /\ UNCHANGED <<TAG_ID, allocated, window_id, ui, cursor, hover_nodes, todo,
                   pre, frames, hover_calls, allocs>>
    /\ UNCHANGED cssvars

\* lines 101-107: the DOM is read out of the locked data: Dom::new(Div) in
\* the test build, dom_lock.layout(window_info) otherwise
Layout(b, d) ==
    /\ pc[b] = "layout"
    /\ pc' = [pc EXCEPT ![b] = from_app_state_next("layout")]
    /\ ui' = [ui EXCEPT ![b] = UiState(d)]
    /\ UNCHANGED <<data_lock, TAG_ID, allocated, window_id, result, cursor,
                   hover_nodes, todo, pre, frames, hover_calls, locks_taken, allocs>>
    /\ UNCHANGED cssvars

\* line 108: dom_lock goes out of scope at the end of the block
Unlock(b) ==
    /\ pc[b] = "unlock"
    /\ data_lock.holder = HeldBy(b)
    /\ data_lock' = [data_lock EXCEPT !.holder = Free]
    /\ pc' = [pc EXCEPT ![b] = from_app_state_next("unlock")]
    /\ UNCHANGED <<TAG_ID, allocated, window_id, ui, result, cursor,
                   hover_nodes, todo, pre, frames, hover_calls, locks_taken, allocs>>
    /\ UNCHANGED cssvars

\* line 110: dom.into_ui_state(), one node per step
IntoUiState(b) ==
    /\ pc[b] = "into_ui_state"
    /\ cursor[b] \in DOMAIN ui[b].dom
    /\ LET n == cursor[b]
           a == new_tag_id(TAG_ID)
       IN IF needs_tag(ui[b].dom[n])
            THEN /\ TAG_ID <= MaxTag
                 /\ ui' = [ui EXCEPT ![b] = route_node(@, n, a.tag)]
                 /\ TAG_ID' = a.counter
                 /\ allocated' = Append(allocated, a.tag)
                 /\ allocs' = [allocs EXCEPT ![b] = @ + 1]
            ELSE /\ ui' = [ui EXCEPT ![b] = route_node(@, n, TAG_ID)]
                 /\ UNCHANGED <<TAG_ID, allocated, allocs>>
    /\ cursor' = [cursor EXCEPT ![b] = @ + 1]
    /\ pc' = [pc EXCEPT ![b] = IF cursor[b] + 1 \in DOMAIN ui[b].dom
                                 THEN "into_ui_state"
                                 ELSE from_app_state_next("into_ui_state")]
    /\ UNCHANGED <<data_lock, window_id, result, hover_nodes, todo, pre,
                   frames, hover_calls, locks_taken>>
    /\ UNCHANGED cssvars

\* line 110: Ok(..) is returned to the caller
Return(b) ==
    /\ pc[b] = "return"
    /\ pc' = [pc EXCEPT ![b] = from_app_state_next("return")]
    /\ result' = [result EXCEPT ![b] = "Ok"]
    /\ UNCHANGED <<data_lock, TAG_ID, allocated, window_id, ui, cursor,
                   hover_nodes, todo, pre, frames, hover_calls, locks_taken, allocs>>
    /\ UNCHANGED cssvars

(***************************************************************************)
(* UiState::create_tags_for_hover_nodes (ui_state.rs:113-125).             *)
(***************************************************************************)
\* a lookup that never finds the node
get_tag_none(reg, n) == {}

\* line 116: self.node_ids_to_tag_ids.get(hover_node_id), an Option as a set
get_tag(reg, n) ==
    IF contains_key(reg.node_ids_to_tag_ids, n)
      THEN {reg.node_ids_to_tag_ids[n]}
      ELSE {}

\* the None arm makes the tag from the node id instead of taking the fresh one
hover_tag_node_id(existing, n, fresh) ==
    IF existing # {} THEN CHOOSE t \in existing : TRUE ELSE n

\* lines 116-119: the match; fresh is what new_tag_id() returns when called
hover_tag(existing, n, fresh) ==
    IF existing # {} THEN CHOOSE t \in existing : TRUE ELSE fresh

\* the iteration without line 122
insert_hover_node_no_inverse(reg, n, t, group) ==
    [reg EXCEPT
       !.node_ids_to_tag_ids = insert(@, n, t),
       !.tag_ids_to_hover_active_states = insert(@, t, <<n, group>>)]

\* the iteration without line 123
insert_hover_node_no_state(reg, n, t, group) ==
    [reg EXCEPT
       !.node_ids_to_tag_ids = insert(@, n, t),
       !.tag_ids_to_node_ids = insert(@, t, n)]

\* the iteration with the hover/active-state map rebuilt instead of extended
insert_hover_node_clearing(reg, n, t, group) ==
    [reg EXCEPT
       !.node_ids_to_tag_ids = insert(@, n, t),
       !.tag_ids_to_node_ids = insert(@, t, n),
       !.tag_ids_to_hover_active_states = insert(EmptyMap, t, <<n, group>>)]

\* lines 121-123: the three inserts of one loop iteration
insert_hover_node(reg, n, t, group) ==
    [reg EXCEPT
       !.node_ids_to_tag_ids = insert(@, n, t),
       !.tag_ids_to_node_ids = insert(@, t, n),
       !.tag_ids_to_hover_active_states = insert(@, t, <<n, group>>)]

\* the call begins with the map h
CreateTagsForHoverNodes(b, h) ==
    /\ pc[b] = "done"
    /\ hover_calls[b] < MaxHoverCalls
    /\ hover_calls' = [hover_calls EXCEPT ![b] = @ + 1]
    /\ hover_nodes' = [hover_nodes EXCEPT ![b] = h]
    /\ todo' = [todo EXCEPT ![b] = DOMAIN h]
    /\ pre' = [pre EXCEPT ![b] = [ui |-> ui[b], allocs |-> allocs[b]]]
    /\ pc' = [pc EXCEPT ![b] = "hover"]
    /\ UNCHANGED <<data_lock, TAG_ID, allocated, window_id, ui, result, cursor,
                   frames, locks_taken, allocs>>
    /\ UNCHANGED cssvars

\* one iteration of the loop of line 115; a BTreeMap iterates in key order
HoverIteration(b) ==
    /\ pc[b] = "hover"
    /\ todo[b] # {}
    /\ LET n == Min(todo[b])
           existing == get_tag(ui[b], n)
           a == new_tag_id(TAG_ID)
           t == hover_tag(existing, n, a.tag)
       IN /\ IF existing = {}
               THEN /\ TAG_ID <= MaxTag
                    /\ TAG_ID' = a.counter
                    /\ allocated' = Append(allocated, a.tag)
                    /\ allocs' = [allocs EXCEPT ![b] = @ + 1]
               ELSE UNCHANGED <<TAG_ID, allocated, allocs>>
          /\ ui' = [ui EXCEPT ![b] = insert_hover_node(@, n, t, hover_nodes[b][n])]
          /\ todo' = [todo EXCEPT ![b] = @ \ {n}]
    /\ UNCHANGED <<data_lock, pc, window_id, result, cursor, hover_nodes, pre,
                   frames, hover_calls, locks_taken>>
    /\ UNCHANGED cssvars

\* the loop is over and the call returns
HoverReturn(b) ==
    /\ pc[b] = "hover"
    /\ todo[b] = {}
    /\ pc' = [pc EXCEPT ![b] = "done"]
    /\ hover_nodes' = [hover_nodes EXCEPT ![b] = EmptyMap]
    /\ pre' = [pre EXCEPT ![b] = NoCall]
    /\ UNCHANGED <<data_lock, TAG_ID, allocated, window_id, ui, result, cursor,
                   todo, frames, hover_calls, locks_taken, allocs>>
    /\ UNCHANGED cssvars

(***************************************************************************)
(* The frame is over: the caller drops the registry (or the error) and     *)
(* builds the next frame from scratch (section 3, lifecycle).              *)
(***************************************************************************)
NextFrame(b) ==
    /\ pc[b] \in {"done", "failed"}
    /\ frames[b] + 1 < MaxFrames
    /\ frames' = [frames EXCEPT ![b] = @ + 1]
    /\ pc' = [pc EXCEPT ![b] = "idle"]
    /\ ui' = [ui EXCEPT ![b] = NoUiState]
    /\ result' = [result EXCEPT ![b] = "pending"]
    /\ cursor' = [cursor EXCEPT ![b] = 1]
    /\ hover_calls' = [hover_calls EXCEPT ![b] = 0]
    /\ locks_taken' = [locks_taken EXCEPT ![b] = 0]
    /\ allocs' = [allocs EXCEPT ![b] = 0]
    /\ UNCHANGED <<data_lock, TAG_ID, allocated, window_id, hover_nodes, todo, pre>>
    /\ UNCHANGED cssvars

(***************************************************************************)
(* The other owner of the shared application data (section 5: the data is  *)
(* an external, shared resource): it locks the mutex, and either unlocks   *)
(* it or panics while holding it, which poisons the mutex.                 *)
(***************************************************************************)
OtherLock ==
    /\ data_lock.holder = Free
    /\ ~data_lock.poisoned
    /\ data_lock' = [data_lock EXCEPT !.holder = Other]
    /\ UNCHANGED <<TAG_ID, allocated, pc, window_id, ui, result, cursor,
                   hover_nodes, todo, pre, frames, hover_calls, locks_taken, allocs>>
    /\ UNCHANGED cssvars

OtherUnlock ==
    /\ data_lock.holder = Other
    /\ data_lock' = [data_lock EXCEPT !.holder = Free]
    /\ UNCHANGED <<TAG_ID, allocated, pc, window_id, ui, result, cursor,
                   hover_nodes, todo, pre, frames, hover_calls, locks_taken, allocs>>
    /\ UNCHANGED cssvars

OtherPanic ==
    /\ data_lock.holder = Other
    /\ data_lock' = [holder |-> Free, poisoned |-> TRUE]
    /\ UNCHANGED <<TAG_ID, allocated, pc, window_id, ui, result, cursor,
                   hover_nodes, todo, pre, frames, hover_calls, locks_taken, allocs>>
    /\ UNCHANGED cssvars

(***************************************************************************)
(* The cascade: UiDescription::from_dom (ui_description.rs:57-60) and what *)
(* css::match_dom_css_selectors does with its arguments (section 4.2).     *)
(***************************************************************************)
\* largest number of nodes of a DOM tree given to from_dom
MaxTreeNodes == 3
\* largest number of rules of a stylesheet
MaxRules == 2

\* the ZIndex newtype
ZIndex(level) == level

\* the z-level from_dom seeds the traversal with
ZIndexSeed == ZIndex(0)

\* the DOM trees of n nodes: node 1 is the root, a parent precedes its
\* children, siblings are in document order by id
Trees(n) == {p \in [1..n -> 0..(n - 1)] : p[1] = 0 /\ \A i \in 2..n : p[i] \in 1..(i - 1)}

Arenas == UNION {Trees(n) : n \in 1..MaxTreeNodes}

\* the children of node n, in document order
Children(p, n) == {c \in DOMAIN p : p[c] = n}

\* NodeData as the selectors see it: div#root, then span.a, span.b, span.a, ...
NodeAttrs(n) ==
    IF n = 1 THEN [type |-> "div", class |-> ""]
    ELSE IF n % 2 = 0 THEN [type |-> "span", class |-> "a"]
    ELSE [type |-> "span", class |-> "b"]

Selectors == {[kind |-> "global", name |-> "*"],
              [kind |-> "type", name |-> "span"],
              [kind |-> "class", name |-> "a"]}

\* a CssDeclaration: a property and its value
Declarations == {[property |-> "color", value |-> "black"],
                 [property |-> "color", value |-> "red"],
                 [property |-> "width", value |-> "wide"]}

\* a CssRule; its `declaration` field is the pair (property key, CssDeclaration)
CssRule(sel, d) == [selector |-> sel, declaration |-> <<d.property, d>>]

CssRules == {CssRule(sel, d) : sel \in Selectors, d \in Declarations}

\* a parsed stylesheet: rules in source order
Stylesheets == UNION {[1..k -> CssRules] : k \in 0..MaxRules}

\* selector matching: universal, element type, class
matches(sel, attrs) ==
    CASE sel.kind = "global" -> TRUE
      [] sel.kind = "type" -> attrs.type = sel.name
      [] sel.kind = "class" -> attrs.class = sel.name

\* selector specificity: universal below element type below class
specificity(sel) ==
    CASE sel.kind = "global" -> 0
      [] sel.kind = "type" -> 1
      [] sel.kind = "class" -> 10

\* rule i comes before rule j in the cascade: (specificity, source order)
cascades_before(css, i, j) ==
    \/ specificity(css[i].selector) < specificity(css[j].selector)
    \/ specificity(css[i].selector) = specificity(css[j].selector) /\ i < j

\* the rules of css[idx] in cascade order, as a sequence of indices
RECURSIVE sort_rules(_, _)
sort_rules(css, idx) ==
    IF idx = {} THEN <<>>
    ELSE LET first == CHOOSE i \in idx :
                         \A j \in idx \ {i} : cascades_before(css, i, j)
         IN <<first>> \o sort_rules(css, idx \ {first})

\* the rules that match node n, in cascade order
matching_rules(css, n) ==
    sort_rules(css, {i \in DOMAIN css : matches(css[i].selector, NodeAttrs(n))})

\* a push that puts the declaration in front
push_rule_front(list, rule) == <<rule.declaration[2]>> \o list

\* CssConstraintList::push_rule (ui_description.rs:78-80):
\* self.list.push(rule.declaration.1.clone())
push_rule(list, rule) == Append(list, rule.declaration[2])

\* StyledNode
StyledNode(z, list) == [z_level |-> z, css_constraints |-> list]

\* a child level that forgets the parent's level
child_z_level_reset(parent_z, step) == step

\* the z-level handed down to the children of a node at level parent_z;
\* step is 1 if the node opens a new level for its children, else 0
child_z_level(parent_z, step) == parent_z + step

\* the sequence of the elements of S (node ids) in ascending order
RECURSIVE in_order(_)
in_order(S) == IF S = {} THEN <<>> ELSE <<Min(S)>> \o in_order(S \ {Min(S)})

\* line 59: match_dom_css_selectors(dom.root, &dom.arena, .., style, ZIndex(0))
FromDom ==
    /\ phase = "idle"
    /\ phase' = "traverse"
    /\ styled_nodes' = EmptyMap
    /\ work' = <<[node |-> 1, z |-> ZIndexSeed]>>
    /\ UNCHANGED <<arena, style, current>>
    /\ UNCHANGED tagvars

\* the traversal reaches the next node (top-down, document order) and
\* collects the rules that match it
Visit ==
    /\ phase = "traverse"
    /\ current = <<>>
    /\ work # <<>>
    /\ current' = <<[node |-> Head(work).node, z |-> Head(work).z,
                     list |-> <<>>, pushed |-> <<>>,
                     rest |-> matching_rules(style, Head(work).node)]>>
    /\ work' = Tail(work)
    /\ UNCHANGED <<arena, style, styled_nodes, phase>>
    /\ UNCHANGED tagvars

\* the next matching rule is pushed onto the node's declaration list
PushRule ==
    /\ phase = "traverse"
    /\ current # <<>>
    /\ current[1].rest # <<>>
    /\ LET c == current[1]
           i == Head(c.rest)
       IN current' = <<[c EXCEPT !.list = push_rule(@, style[i]),
                                 !.pushed = Append(@, i),
                                 !.rest = Tail(@)]>>
    /\ UNCHANGED <<arena, style, styled_nodes, work, phase>>
    /\ UNCHANGED tagvars

\* the node is styled: it enters styled_nodes and its children are queued
\* in front of the waiting nodes
Styled(step) ==
    /\ phase = "traverse"
    /\ current # <<>>
    /\ current[1].rest = <<>>
    /\ LET c == current[1]
           kids == in_order(Children(arena, c.node))
       IN /\ styled_nodes' = insert(styled_nodes, c.node, StyledNode(c.z, c.list))
          /\ work' = [k \in DOMAIN kids |->
                         [node |-> kids[k], z |-> child_z_level(c.z, step)]] \o work
    /\ current' = <<>>
    /\ UNCHANGED <<arena, style, phase>>
    /\ UNCHANGED tagvars

\* every node was visited: from_dom returns the UiDescription
FromDomReturn ==
    /\ phase = "traverse"
    /\ current = <<>>
    /\ work = <<>>
    /\ phase' = "done"
    /\ UNCHANGED <<arena, style, styled_nodes, work, current>>
    /\ UNCHANGED tagvars

(***************************************************************************)
(* Specifications.                                                         *)
(***************************************************************************)
TagInit ==
    /\ data_lock = [holder |-> Free, poisoned |-> FALSE]
    /\ TAG_ID = 1
    /\ allocated = <<>>
    /\ pc = [b \in Builders |-> "idle"]
    /\ window_id = [b \in Builders |-> 1]
    /\ ui = [b \in Builders |-> NoUiState]
    /\ result = [b \in Builders |-> "pending"]
    /\ cursor = [b \in Builders |-> 1]
    /\ hover_nodes = [b \in Builders |-> EmptyMap]
    /\ todo = [b \in Builders |-> {}]
    /\ pre = [b \in Builders |-> NoCall]
    /\ frames = [b \in Builders |-> 0]
    /\ hover_calls = [b \in Builders |-> 0]
    /\ locks_taken = [b \in Builders |-> 0]
    /\ allocs = [b \in Builders |-> 0]

\* from_dom's inputs and its state before the call
CssInit(arenas, stylesheets) ==
    /\ arena \in arenas
    /\ style \in stylesheets
    /\ styled_nodes = EmptyMap
    /\ work = <<>>
    /\ current = <<>>
    /\ phase = "idle"

\* the registry builders, with the cascade idle on the default DOM and the
\* empty stylesheet
Init == TagInit /\ CssInit({<<0>>}, {<<>>})

\* one builder, one frame: every DOM, then hover calls with every hover map
Next ==
    \/ \E wid \in WindowIds : FromAppState(1, wid)
    \/ Lock(1)
    \/ \E d \in Doms : Layout(1, d)
    \/ Unlock(1)
    \/ IntoUiState(1)
    \/ Return(1)
    \/ \E h \in HoverMaps(ui[1].dom) : CreateTagsForHoverNodes(1, h)
    \/ HoverIteration(1)
    \/ HoverReturn(1)

Spec == Init /\ [][Next]_vars

\* one builder, frame after frame (one hover call per frame), sharing the
\* application data with another thread
NextFrames ==
    \/ \E wid \in WindowIds : FromAppState(1, wid)
    \/ Lock(1)
    \/ \E d \in SmallDoms : Layout(1, d)
    \/ Unlock(1)
    \/ IntoUiState(1)
    \/ Return(1)
    \/ \E h \in HoverMaps(ui[1].dom) : hover_calls[1] = 0 /\ CreateTagsForHoverNodes(1, h)
    \/ HoverIteration(1)
    \/ HoverReturn(1)
    \/ NextFrame(1)
    \/ OtherLock
    \/ OtherUnlock
    \/ OtherPanic

SpecFrames == Init /\ [][NextFrames]_vars

\* two builders running concurrently, builder b for window b: each builds
\* its registry and makes one hover call on it; builder 1 goes on to further
\* frames
NextConc ==
    \E b \in Builders :
        \/ FromAppState(b, b)
        \/ Lock(b)
        \/ \E d \in SmallDoms : Layout(b, d)
        \/ Unlock(b)
        \/ IntoUiState(b)
        \/ Return(b)
        \/ \E h \in HoverMaps(ui[b].dom) : hover_calls[b] = 0 /\ CreateTagsForHoverNodes(b, h)
        \/ HoverIteration(b)
        \/ HoverReturn(b)
        \/ b = 1 /\ NextFrame(b)

SpecConc == Init /\ [][NextConc]_vars

\* from_dom on every DOM tree and every stylesheet
InitCascade == TagInit /\ CssInit(Arenas, Stylesheets)

NextCascade ==
    \/ FromDom
    \/ Visit
    \/ PushRule
    \/ \E step \in {0, 1} : Styled(step)
    \/ FromDomReturn

SpecCascade == InitCascade /\ [][NextCascade]_vars

(***************************************************************************)
(* Properties of the tag registry.                                         *)
(***************************************************************************)
\* the nodes of hover_nodes[b] the running call has iterated over
Processed(b) == (DOMAIN hover_nodes[b]) \ todo[b]

\* the running hover call of builder b has finished its loop
HoverLoopDone(b) == pc[b] = "hover" /\ todo[b] = {}

\* node n got its tag from into_ui_state (not from a hover call)
TaggedByBuild(reg, n) == n \in DOMAIN reg.dom /\ reg.dom[n].is_draggable

Bijection(reg) ==
    /\ \A n \in DOMAIN reg.node_ids_to_tag_ids :
          /\ reg.node_ids_to_tag_ids[n] \in DOMAIN reg.tag_ids_to_node_ids
          /\ reg.tag_ids_to_node_ids[reg.node_ids_to_tag_ids[n]] = n
    /\ \A t \in DOMAIN reg.tag_ids_to_node_ids :
          /\ reg.tag_ids_to_node_ids[t] \in DOMAIN reg.node_ids_to_tag_ids
          /\ reg.node_ids_to_tag_ids[reg.tag_ids_to_node_ids[t]] = t

\* C1: in every registry, while it is built by from_app_state and during and
\* after every create_tags_for_hover_nodes call, tag_ids_to_node_ids and
\* node_ids_to_tag_ids are inverse of each other.
C1_Bijection == \A b \in Builders : Bijection(ui[b])

\* a registry after two hover calls holding a tag made by into_ui_state and a
\* tag made by a hover call
C1_Witness ==
    /\ pc[1] = "done"
    /\ hover_calls[1] = 2
    /\ \E n, m \in DOMAIN ui[1].node_ids_to_tag_ids :
          /\ TaggedByBuild(ui[1], n)
          /\ ~needs_tag(ui[1].dom[m])

\* every tag some map of the registry associates with node n
TagsOf(reg, n) ==
    {t \in DOMAIN reg.tag_ids_to_node_ids : reg.tag_ids_to_node_ids[t] = n}
    \cup {t \in DOMAIN reg.draggable_tags : reg.draggable_tags[t] = n}
    \cup {t \in DOMAIN reg.tab_index_tags : reg.tab_index_tags[t][1] = n}
    \cup {t \in DOMAIN reg.tag_ids_to_hover_active_states :
             reg.tag_ids_to_hover_active_states[t][1] = n}
    \cup (IF n \in DOMAIN reg.node_ids_to_tag_ids
            THEN {reg.node_ids_to_tag_ids[n]} ELSE {})

\* C2: a node that has a tag when create_tags_for_hover_nodes reaches it keeps
\* that tag and no tag is allocated for it (the call allocates one tag per
\* node that had none), and over the whole life of a registry no node is
\* associated with two different tags in any of its maps.
C2_TagReuse ==
    \A b \in Builders :
        /\ \A n \in DOMAIN ui[b].dom : Cardinality(TagsOf(ui[b], n)) <= 1
        /\ pc[b] = "hover" =>
              /\ \A n \in DOMAIN pre[b].ui.node_ids_to_tag_ids :
                    /\ n \in DOMAIN ui[b].node_ids_to_tag_ids
                    /\ ui[b].node_ids_to_tag_ids[n] = pre[b].ui.node_ids_to_tag_ids[n]
              /\ allocs[b] - pre[b].allocs =
                    Cardinality(Processed(b) \ DOMAIN pre[b].ui.node_ids_to_tag_ids)

\* a second hover call has gone over a draggable node (tagged by
\* into_ui_state) and over a node tagged by the first hover call
C2_Witness ==
    /\ HoverLoopDone(1)
    /\ hover_calls[1] = 2
    /\ \E n, m \in DOMAIN hover_nodes[1] :
          /\ TaggedByBuild(ui[1], n)
          /\ ~needs_tag(ui[1].dom[m])
          /\ m \in DOMAIN pre[1].ui.node_ids_to_tag_ids

\* the hover/active-state entries of node n, as a set of <<tag, entry>>
HoverEntriesOf(reg, n) ==
    {<<t, reg.tag_ids_to_hover_active_states[t]>> :
        t \in {u \in DOMAIN reg.tag_ids_to_hover_active_states :
                  reg.tag_ids_to_hover_active_states[u][1] = n}}

\* C3: create_tags_for_hover_nodes(h) gives every node n it has iterated over
\* (all of h when the loop is over) a tag t = node_ids_to_tag_ids[n] with
\* tag_ids_to_hover_active_states[t] = (n, h[n]), and gives no node outside h
\* a tag or a hover/active-state entry.
C3_ExactlyHoverNodes ==
    \A b \in Builders :
        pc[b] = "hover" =>
            /\ \A n \in Processed(b) :
                  /\ n \in DOMAIN ui[b].node_ids_to_tag_ids
                  /\ ui[b].node_ids_to_tag_ids[n]
                        \in DOMAIN ui[b].tag_ids_to_hover_active_states
                  /\ ui[b].tag_ids_to_hover_active_states[ui[b].node_ids_to_tag_ids[n]]
                        = <<n, hover_nodes[b][n]>>
            /\ \A n \in (DOMAIN ui[b].dom) \ Processed(b) :
                  /\ n \in DOMAIN ui[b].node_ids_to_tag_ids
                        <=> n \in DOMAIN pre[b].ui.node_ids_to_tag_ids
                  /\ TagsOf(ui[b], n) = TagsOf(pre[b].ui, n)
                  /\ HoverEntriesOf(ui[b], n) = HoverEntriesOf(pre[b].ui, n)

\* a finished second call whose map holds a node that had no tag, on a
\* registry where a node outside the map has an entry from the first call
C3_Witness ==
    /\ HoverLoopDone(1)
    /\ hover_calls[1] = 2
    /\ \E m \in DOMAIN hover_nodes[1] : m \notin DOMAIN pre[1].ui.node_ids_to_tag_ids
    /\ \E n \in (DOMAIN ui[1].dom) \ (DOMAIN hover_nodes[1]) :
          HoverEntriesOf(ui[1], n) # {}

\* every entry of m1 is an entry of m2
SubMap(m1, m2) == \A k \in DOMAIN m1 : k \in DOMAIN m2 /\ m2[k] = m1[k]

\* every node of h already has its tag and its (node, group) entry
AlreadyRecorded(reg, h) ==
    \A n \in DOMAIN h :
        /\ n \in DOMAIN reg.node_ids_to_tag_ids
        /\ reg.node_ids_to_tag_ids[n] \in DOMAIN reg.tag_ids_to_hover_active_states
        /\ reg.tag_ids_to_hover_active_states[reg.node_ids_to_tag_ids[n]] = <<n, h[n]>>

\* C10: create_tags_for_hover_nodes only adds: the entries of both tag maps
\* stay, every other field but the hover/active-state map is unchanged, the
\* hover/active-state entries of nodes not in the call's map stay, a node in
\* the map gets the map's group, and a call whose map is already recorded
\* (a repeated call) allocates nothing and leaves the registry unchanged.
C10_OnlyAdds ==
    \A b \in Builders :
        pc[b] = "hover" =>
            LET old == pre[b].ui
                new == ui[b]
            IN /\ SubMap(old.node_ids_to_tag_ids, new.node_ids_to_tag_ids)
               /\ SubMap(old.tag_ids_to_node_ids, new.tag_ids_to_node_ids)
               /\ [new EXCEPT !.node_ids_to_tag_ids = old.node_ids_to_tag_ids,
                              !.tag_ids_to_node_ids = old.tag_ids_to_node_ids,
                              !.tag_ids_to_hover_active_states =
                                   old.tag_ids_to_hover_active_states] = old
               /\ \A t \in DOMAIN old.tag_ids_to_hover_active_states :
                     old.tag_ids_to_hover_active_states[t][1] \notin Processed(b)
                        => /\ t \in DOMAIN new.tag_ids_to_hover_active_states
                           /\ new.tag_ids_to_hover_active_states[t]
                                 = old.tag_ids_to_hover_active_states[t]
               /\ \A t \in DOMAIN new.tag_ids_to_hover_active_states :
                     new.tag_ids_to_hover_active_states[t][1] \in Processed(b)
                        => new.tag_ids_to_hover_active_states[t][2]
                              = hover_nodes[b][new.tag_ids_to_hover_active_states[t][1]]
               /\ AlreadyRecorded(old, hover_nodes[b])
                     => new = old /\ allocs[b] = pre[b].allocs

\* the second call is over: a node of the first call is not in its map and
\* kept its entry, another is in both and changed its group
C10_Witness ==
    /\ HoverLoopDone(1)
    /\ hover_calls[1] = 2
    /\ \E t, u \in DOMAIN pre[1].ui.tag_ids_to_hover_active_states :
          /\ pre[1].ui.tag_ids_to_hover_active_states[t][1] \notin DOMAIN hover_nodes[1]
          /\ pre[1].ui.tag_ids_to_hover_active_states[u][1] \in DOMAIN hover_nodes[1]
          /\ ui[1].tag_ids_to_hover_active_states[u]
                # pre[1].ui.tag_ids_to_hover_active_states[u]

\* the node carries negated-filter callbacks and nothing else
OnlyNegated(data) ==
    /\ data.callbacks \cup data.default_callback_ids # {}
    /\ \A r \in data.callbacks \cup data.default_callback_ids : r[1] = "Not"
    /\ ~data.is_draggable
    /\ data.tab_index = "None"

\* from_app_state has returned the registry and no hover call was made on it
FreshlyBuilt(b) == pc[b] = "done" /\ result[b] = "Ok" /\ hover_calls[b] = 0

\* C6: in a registry as built from a DOM, a node with only negated-filter
\* callbacks has them recorded under its node id in not_callbacks /
\* not_default_callbacks, is in no tag map, and no tag was allocated for it
\* (the tags allocated are those of node_ids_to_tag_ids).
C6_NegatedNeverTagged ==
    \A b \in Builders :
        FreshlyBuilt(b) =>
            /\ allocs[b] = Cardinality(DOMAIN ui[b].node_ids_to_tag_ids)
            /\ \A n \in DOMAIN ui[b].dom :
                  LET data == ui[b].dom[n] IN
                  OnlyNegated(data) =>
                      /\ TagsOf(ui[b], n) = {}
                      /\ data.callbacks # {} =>
                            /\ n \in DOMAIN ui[b].not_callbacks
                            /\ ui[b].not_callbacks[n] = data.callbacks
                      /\ data.default_callback_ids # {} =>
                            /\ n \in DOMAIN ui[b].not_default_callbacks
                            /\ ui[b].not_default_callbacks[n] = data.default_callback_ids

\* a registry built from a DOM with a negated-only node next to a tagged one
C6_Witness ==
    /\ FreshlyBuilt(1)
    /\ \E n, m \in DOMAIN ui[1].dom :
          /\ OnlyNegated(ui[1].dom[n])
          /\ n \in DOMAIN ui[1].not_callbacks
          /\ m \in DOMAIN ui[1].node_ids_to_tag_ids

(***************************************************************************)
(* Properties of from_app_state and of the tag counter.                    *)
(***************************************************************************)
\* the last from_app_state call of builder b is over
Finished(b) == pc[b] \in {"failed", "panicked", "done", "hover"}

\* into_ui_state went over every node of the DOM
Complete(b) ==
    /\ cursor[b] = Len(ui[b].dom) + 1
    /\ ui[b].dom # <<>>

\* nothing was produced, locked or allocated
Aborted(b) == ui[b] = NoUiState /\ locks_taken[b] = 0 /\ allocs[b] = 0

C9_LockScope ==
    \A b \in Builders :
        /\ data_lock.holder = HeldBy(b) => pc[b] \in {"layout", "unlock"}
        /\ pc[b] \in {"layout", "unlock"} => data_lock.holder = HeldBy(b)
        /\ locks_taken[b] <= 1
        /\ locks_taken[b] = 1 => window_id[b] \in Windows
        /\ pc[b] \in {"into_ui_state", "return", "done"} =>
              locks_taken[b] = 1 /\ data_lock.holder # HeldBy(b)
        /\ data_lock.holder = HeldBy(b) => allocs[b] = 0 /\ cursor[b] = 1

\* the traversal has allocated a tag and goes on while the other thread
\* holds the lock
C9_Witness ==
    /\ pc[1] = "into_ui_state"
    /\ allocs[1] > 0
    /\ data_lock.holder = Other

\* the tags of a registry
Tags(reg) == (DOMAIN reg.tag_ids_to_node_ids) \cup Values(reg.node_ids_to_tag_ids)

Elems(seq) == {seq[i] : i \in DOMAIN seq}

\* C5: the tags new_tag_id returns are strictly increasing, hence pairwise
\* different, whichever builder asks and in whichever frame and interleaving;
\* every tag of a registry is one of them, distinct nodes of a registry have
\* distinct tags (one allocation each) and two registries share no tag.
C5_UniqueTags ==
    /\ \A i, j \in DOMAIN allocated : i < j => allocated[i] < allocated[j]
    /\ \A b \in Builders :
          /\ Tags(ui[b]) \subseteq Elems(allocated)
          /\ Cardinality(Tags(ui[b])) = allocs[b]
          /\ Cardinality(DOMAIN ui[b].node_ids_to_tag_ids) = allocs[b]
    /\ \A b, c \in Builders : b # c => Tags(ui[b]) \cap Tags(ui[c]) = {}

\* both builders gave tags to two untagged nodes in a hover call, their
\* allocations interleaved, builder 1 in its second frame
C5_Witness ==
    /\ frames[1] = 1
    /\ \A b \in Builders :
          /\ HoverLoopDone(b)
          /\ DOMAIN pre[b].ui.node_ids_to_tag_ids = {}
          /\ Cardinality(DOMAIN ui[b].node_ids_to_tag_ids) = 2
    /\ \E t, v \in Tags(ui[1]) : \E u \in Tags(ui[2]) : t < u /\ u < v

(***************************************************************************)
(* Properties of the styled-node map.                                      *)
(***************************************************************************)
Max(S) == CHOOSE x \in S : \A y \in S : y <= x

\* the consumers' property lookup: the value of the last declaration of prop
LastWins(list, prop) ==
    list[Max({k \in DOMAIN list : list[k].property = prop})].value

\* rule i of the stylesheet matches node n
Matches(i, n) == matches(style[i].selector, NodeAttrs(n))

\* no rule matching n that declares the property of rule j cascades after j
Authoritative(j, n) ==
    \A k \in DOMAIN style :
        (k # j /\ Matches(k, n) /\ style[k].declaration[1] = style[j].declaration[1])
            => cascades_before(style, k, j)

\* C7: a declaration list only grows at its end, one declaration per push_rule
\* and none ever dropped (entry k is the declaration of the k-th rule pushed);
\* so for rules R1 (lower specificity, earlier) and R2 (same property, higher
\* specificity, later) that both match a node, the node's list holds R1's
\* declaration before R2's, and a last-wins lookup of the property yields
\* R2's value when R2 is the last rule of the cascade for that property.
C7_CascadeOrder ==
    /\ current # <<>> =>
          LET c == current[1] IN
          /\ Len(c.list) = Len(c.pushed)
          /\ \A k \in DOMAIN c.list : c.list[k] = style[c.pushed[k]].declaration[2]
    /\ \A n \in DOMAIN styled_nodes :
          LET list == styled_nodes[n].css_constraints IN
          /\ Len(list) = Cardinality({i \in DOMAIN style : Matches(i, n)})
          /\ \A i, j \in DOMAIN style :
                ( /\ i < j
                  /\ specificity(style[i].selector) < specificity(style[j].selector)
                  /\ style[i].declaration[1] = style[j].declaration[1]
                  /\ Matches(i, n) /\ Matches(j, n) )
                => /\ \E q1, q2 \in DOMAIN list :
                         /\ q1 < q2
                         /\ list[q1] = style[i].declaration[2]
                         /\ list[q2] = style[j].declaration[2]
                   /\ Authoritative(j, n) =>
                         LastWins(list, style[j].declaration[1])
                            = style[j].declaration[2].value

\* the scenario of the written specification: div#root > span.a, span.b with
\* span {color: black} then .a {color: red}
C7_Witness ==
    /\ phase = "done"
    /\ arena = <<0, 1, 1>>
    /\ style = <<CssRule([kind |-> "type", name |-> "span"],
                         [property |-> "color", value |-> "black"]),
                 CssRule([kind |-> "class", name |-> "a"],
                         [property |-> "color", value |-> "red"])>>
    /\ styled_nodes[1].css_constraints = <<>>
    /\ styled_nodes[2].css_constraints = <<[property |-> "color", value |-> "black"],
                                           [property |-> "color", value |-> "red"]>>
    /\ styled_nodes[3].css_constraints = <<[property |-> "color", value |-> "black"]>>
    /\ LastWins(styled_nodes[2].css_constraints, "color") = "red"

\* C8: in the styled-node map, a sibling later in document order is never at
\* a lower z-level than an earlier one, and a child is never at a lower
\* z-level than its parent; when from_dom returns every node is in the map.
C8_PaintOrder ==
    /\ \A a, b \in DOMAIN styled_nodes :
          (a < b /\ arena[a] = arena[b])
             => styled_nodes[a].z_level <= styled_nodes[b].z_level
    /\ \A c \in DOMAIN styled_nodes :
          arena[c] # 0 =>
             /\ arena[c] \in DOMAIN styled_nodes
             /\ styled_nodes[c].z_level >= styled_nodes[arena[c]].z_level
    /\ phase = "done" => DOMAIN styled_nodes = DOMAIN arena

\* from_dom has returned for a root with two children one level up
C8_Witness ==
    /\ phase = "done"
    /\ arena = <<0, 1, 1>>
    /\ styled_nodes[1].z_level = 0
    /\ styled_nodes[2].z_level = 1
    /\ styled_nodes[3].z_level = 1

====
